---- MODULE Spec2Model ----
(***************************************************************************)
(* Image-upload pipeline of the publications admin front-end:              *)
(*   - ApiService (HTTP client, axios interceptors, upload methods),       *)
(*   - ImageUploadService (validateFile, uploadImage, uploadImageClassic,  *)
(*     deleteImage, resizeImage),                                          *)
(*   - the ImageUpload widget that calls the service,                      *)
(*   - the CreatePublication form.                                         *)
(*                                                                         *)
(* JavaScript values are represented as follows.                           *)
(*   string     a sequence of one-character strings (file names, URLs) or  *)
(*              of text chunks (messages); "" is << >>                     *)
(*   optional   << >> for undefined/null, << v >> for a present value v    *)
(*   object     a record that has every property, each one optional        *)
(***************************************************************************)
EXTENDS Integers, Sequences, FiniteSets, TLC

VARIABLES
    PROD,          \* import.meta.env.PROD, fixed at build time
    localStorage,  \* [token, currentUser], both optional
    location,      \* window.location.href
    op,            \* the service operation in progress
    file,          \* its File argument
    pc,            \* "idle", "pending" (request in flight), "resolved", "rejected"
    requests,      \* requests handed to axios on behalf of the call, in order
    response,      \* what the transport answered, optional
    result,        \* the ImageUploadResponse of a resolved call, optional
    error,         \* the message of the Error of a rejected call
    \* the ImageUpload widget
    showPreview,   \* the showPreview prop
    uploadState,   \* [isUploading, progress, error, success]
    previewUrl,    \* the previewUrl state: an object URL, optional
    liveUrls,      \* the object URLs created and not yet revoked
    uploads,       \* the calls of handleFileUpload, by number
    intervals,     \* the number of running progress intervals
    \* the page around the HTTP client
    redirects,     \* how many times window.location.href was set to the login page
    unloaded,      \* the navigation has replaced the page: its scripts no longer run
    calls,         \* calls of ApiService operations made side by side, by number
    \* the publication form and its ImageUpload component
    form,
    \* ImageUploadService.resizeImage
    resize,
    \* the host of the widget
    mounted,       \* the widget is mounted
    reported       \* the last value passed to the onProgress prop, optional

\* the environment, the state of a direct service call, the state of the widget
envVars == <<PROD, localStorage, location>>
callVars == <<op, file, pc, requests, response, result, error>>
widgetVars == <<showPreview, uploadState, previewUrl, liveUrls, uploads, intervals>>
sessionVars == <<unloaded, calls>>
formVars == <<form, resize>>
hostVars == <<mounted, reported>>
vars == <<envVars, callVars, widgetVars, redirects, sessionVars, formVars, hostVars>>

-----------------------------------------------------------------------------
(* JavaScript helpers *)

None == << >>
Some(v) == << v >>

\* truthiness of an optional string: undefined and "" are falsy
TruthyStr(o) == o # None /\ Len(o[1]) > 0
\* truthiness of an optional number: undefined and 0 are falsy
TruthyNum(o) == o # None /\ o[1] # 0
\* a || b on optional strings / numbers
OrStr(a, b) == IF TruthyStr(a) THEN a ELSE b
OrNum(a, b) == IF TruthyNum(a) THEN a ELSE b

\* s.includes(chunk) for a message made of chunks
Includes(s, chunk) == \E i \in 1..Len(s) : s[i] = chunk

\* s.startsWith('http') for a string of characters
StartsWithHttp(s) ==
    /\ Len(s) >= 4
    /\ SubSeq(s, 1, 4) = <<"h", "t", "t", "p">>

\* the string of n characters c
Repeat(c, n) == [i \in 1..n |-> c]

-----------------------------------------------------------------------------
(* Inputs: files *)

\* validateFile's limits
maxSize == 10 * 1024 * 1024
maxNameLength == 255
\* file-name lengths range from maxNameLength - LenSlack to maxNameLength + 1 + LenSlack
LenSlack == 0

supportedFormats ==
    { <<"image/", "jpeg">>, <<"image/", "jpg">>, <<"image/", "png">>,
      <<"image/", "gif">>, <<"image/", "webp">>, <<"image/", "bmp">>,
      <<"image/", "tiff">> }

\* /[<>:"/\\|?*]/
invalidChars == {"<", ">", ":", "\"", "/", "\\", "|", "?", "*"}

FileTypes ==
    supportedFormats \cup
    { <<"image/", "svg+xml">>, <<"text/", "plain">>, <<"application/", "pdf">>, << >> }

FileSizes == {0, 1, maxSize, maxSize + 1}

FileNames ==
    { <<"a", c, "g">> : c \in invalidChars \cup {"."} }
    \cup { Repeat("n", n) : n \in (maxNameLength - LenSlack)..(maxNameLength + 1 + LenSlack) }
    \cup { Repeat("n", maxNameLength - 1) \o <<"*">> }

NullFile == [isNull |-> TRUE, type |-> << >>, size |-> 0, name |-> << >>]

Files ==
    { [isNull |-> FALSE, type |-> t, size |-> s, name |-> n] :
        t \in FileTypes, s \in FileSizes, n \in FileNames }
    \cup {NullFile}

-----------------------------------------------------------------------------
(* Messages *)

ErrUploadPhrase == "Erreur lors de l'upload"
UploadPrefix == <<ErrUploadPhrase, " de l'image: ">>

Ok == [ok |-> TRUE]
Throw(msg) == [ok |-> FALSE, message |-> msg]

-----------------------------------------------------------------------------
(* ImageUploadService.validateFile *)

\* line 194: file.type.startsWith('image/')
isImage(f) == Len(f.type) >= 1 /\ f.type[1] = "image/"

\* line 199: file.size > maxSize
tooLarge_inclusive(f) == f.size >= maxSize
tooLarge(f) == f.size > maxSize

\* line 217: supportedFormats.includes(file.type)
isSupportedFormat_prefixOnly(f) == Len(f.type) >= 1 /\ f.type[1] = "image/"
isSupportedFormat(f) == f.type \in supportedFormats

\* line 222: file.name.length > 255
nameTooLong_inclusive(f) == Len(f.name) >= maxNameLength
nameTooLong(f) == Len(f.name) > maxNameLength

\* line 228: invalidChars.test(file.name)
hasInvalidChars(f) == \E i \in 1..Len(f.name) : f.name[i] \in invalidChars

validateFile(f) ==
    IF f.isNull THEN Throw(<<"Aucun fichier selectionne">>)
    ELSE IF ~isImage(f)
        THEN Throw(<<"Le fichier doit etre une image">>)
    ELSE IF tooLarge(f)
        THEN Throw(<<"La taille du fichier ne doit pas depasser 10MB">>)
    ELSE IF f.size = 0
        THEN Throw(<<"Le fichier est vide">>)
    ELSE IF ~isSupportedFormat(f)
        THEN Throw(<<"Format non supporte. Utilisez JPEG, PNG, GIF, WebP, BMP ou TIFF">>)
    ELSE IF nameTooLong(f)
        THEN Throw(<<"Le nom du fichier est trop long">>)
    ELSE IF hasInvalidChars(f)
        THEN Throw(<<"Le nom du fichier contient des caracteres non autorises">>)
    ELSE Ok

-----------------------------------------------------------------------------
(* Inputs: what the transport answers *)

\* characters of "https://h/1.jpg" and the like
Url(c) == <<"h", "t", "t", "p", "s", ":", "/", "/", "h", "/", c, ".", "j", "p", "g">>

NoFields ==
    [imageUrl |-> None, url |-> None, publicId |-> None, public_id |-> None,
     originalFileName |-> None, original_filename |-> None,
     fileSize |-> None, file_size |-> None,
     width |-> None, height |-> None, dimensions |-> None]

\* where the URL may be: imageUrl, url, both, or an empty imageUrl
UrlParts ==
    { [NoFields EXCEPT !.imageUrl = a, !.url = b] :
        a \in {None, Some(<< >>), Some(Url("1"))}, b \in {None, Some(Url("2"))} }

ImageUrlOnly == [NoFields EXCEPT !.imageUrl = Some(Url("1"))]
UrlOnly == [NoFields EXCEPT !.url = Some(Url("2"))]

\* the other image properties a backend may send, in camelCase and in snake_case
MetaParts ==
    { [NoFields EXCEPT !.publicId = a, !.public_id = b] :
        a \in {None, Some(<<"p", "1">>)}, b \in {None, Some(<<"p", "2">>)} }
    \cup
    { [NoFields EXCEPT !.width = w[1], !.height = w[2]] :
        w \in { <<Some(640), Some(480)>>, <<Some(640), None>> } }
    \cup
    { [NoFields EXCEPT !.originalFileName = a, !.original_filename = b] :
        a \in {None, Some(<< >>), Some(<<"r", "1">>)}, b \in {None, Some(<<"r", "2">>)} }
    \cup
    { [NoFields EXCEPT !.fileSize = a, !.file_size = b] :
        a \in {None, Some(0), Some(2048)}, b \in {None, Some(4096)} }
    \cup
    { [NoFields EXCEPT !.publicId = Some(<<"p", "1">>),
                       !.originalFileName = Some(<<"r", "1">>),
                       !.fileSize = Some(2048),
                       !.dimensions = Some([width |-> 800, height |-> 600])] }

ImageFields ==
    UrlParts \cup
    { [m EXCEPT !.imageUrl = u.imageUrl, !.url = u.url] :
        u \in {ImageUrlOnly, UrlOnly}, m \in MetaParts }

EmptyObject ==
    [str |-> None, success |-> None, message |-> None, error |-> None, details |-> None,
     data |-> None, fileUrl |-> None, filename |-> None, top |-> NoFields]

BackendMessages == { << >>, <<"quota exceeded">>, <<ErrUploadPhrase, " (backend)">> }

\* bodies with the image properties at the top level
DirectBodies == { [EmptyObject EXCEPT !.top = t] : t \in ImageFields }

\* bodies with the image properties under data
EnvelopeBodies ==
    { [EmptyObject EXCEPT !.success = Some(TRUE), !.data = Some(d)] : d \in ImageFields }
    \cup
    { [EmptyObject EXCEPT !.data = Some(d), !.top = t] :
        d \in {NoFields, UrlOnly}, t \in {NoFields, ImageUrlOnly, UrlOnly} }

\* bodies that carry a success flag and a message
FlaggedBodies ==
    { [EmptyObject EXCEPT !.success = Some(s), !.message = m, !.top = t] :
        s \in BOOLEAN, m \in {None} \cup {Some(x) : x \in BackendMessages},
        t \in {NoFields, ImageUrlOnly} }
    \cup
    { [EmptyObject EXCEPT !.success = Some(FALSE), !.message = Some(<<"quota exceeded">>),
                          !.data = Some(ImageUrlOnly)] }

\* bodies of the classic endpoint
ClassicFilenames ==
    { << >>, <<"y", ".", "p", "n", "g">>, <<"h", "t", "t", "p", ".", "p", "n", "g">>, Url("4") }

ClassicBodies ==
    { [EmptyObject EXCEPT !.fileUrl = a, !.filename = b, !.top = t] :
        a \in {None, Some(<< >>), Some(Url("3"))},
        b \in {None} \cup {Some(x) : x \in ClassicFilenames},
        t \in {NoFields, UrlOnly} }
    \cup
    { [EmptyObject EXCEPT !.filename = Some(<<"y", ".", "p", "n", "g">>), !.top = t] :
        t \in { [NoFields EXCEPT !.originalFileName = Some(<<"r", "1">>),
                                 !.fileSize = Some(2048),
                                 !.width = Some(640), !.height = Some(480)],
                [NoFields EXCEPT !.originalFileName = Some(<< >>), !.fileSize = Some(0)] } }

\* a body that is a string
TextBodies == { [EmptyObject EXCEPT !.str = Some(<<"uploaded">>)] }

SuccessBodies ==
    DirectBodies \cup EnvelopeBodies \cup FlaggedBodies \cup ClassicBodies \cup TextBodies

\* bodies of failed requests
ErrorBodies ==
    { [EmptyObject EXCEPT !.str = Some(<<"Bad request">>)],
      [EmptyObject EXCEPT !.message = Some(<<"quota exceeded">>),
                          !.error = Some(<<"E_UPLOAD">>), !.details = Some(<<"see logs">>)],
      [EmptyObject EXCEPT !.error = Some(<<"E_UPLOAD">>), !.details = Some(<<"see logs">>)],
      [EmptyObject EXCEPT !.details = Some(<<"see logs">>)],
      EmptyObject }

StatusText(status) ==
    CASE status = 200 -> "OK"
      [] status = 201 -> "Created"
      [] status = 400 -> "Bad Request"
      [] status = 401 -> "Unauthorized"
      [] status = 413 -> "Payload Too Large"
      [] status = 415 -> "Unsupported Media Type"
      [] OTHER -> "Internal Server Error"

HttpResponse(status, data) ==
    [kind |-> "response", status |-> status, statusText |-> StatusText(status), data |-> data]

NetworkFailure ==
    [kind |-> "network", status |-> 0, statusText |-> "", data |-> None]

Outcomes ==
    { HttpResponse(200, d) : d \in {None} \cup {Some(b) : b \in SuccessBodies} }
    \cup { HttpResponse(201, d) : d \in {None, Some([EmptyObject EXCEPT !.top.imageUrl = Some(Url("1"))])} }
    \cup { HttpResponse(s, d) : s \in {400, 401, 413, 415, 500},
                                d \in {None} \cup {Some(b) : b \in ErrorBodies} }
    \cup { NetworkFailure }

-----------------------------------------------------------------------------
(* ApiService *)

\* the request interceptor: the Authorization header of an outgoing request
requestInterceptor_anyStoredValue(url, storage) ==
    [url |-> url,
     Authorization |-> IF storage.token # None
                       THEN Some(<<"Bearer ">> \o storage.token[1])
                       ELSE None]
requestInterceptor(url, storage) ==
    [url |-> url,
     Authorization |-> IF TruthyStr(storage.token)
                       THEN Some(<<"Bearer ">> \o storage.token[1])
                       ELSE None]

\* axios settles a request: fulfilled for a 2xx status, rejected otherwise
Fulfilled(o) == o.kind = "response" /\ o.status \in 200..299
Unauthorized(o) == o.kind = "response" /\ o.status = 401

\* error.message of the AxiosError
AxiosMessage(o) ==
    IF o.kind = "network" THEN <<"Network Error">>
    ELSE <<"Request failed with status code ", ToString(o.status)>>

\* the response interceptor's error handler: the message of the Error it rejects with
\* (error.response?.data is tested for truthiness: an empty string body counts as none)
interceptorMessage_errorFirst(o) ==
    IF Unauthorized(o) THEN <<"Session expired. Please log in again.">>
    ELSE IF o.kind = "response" /\ o.data # None /\ o.data[1].str # Some(<< >>)
        THEN LET errorData == o.data[1] IN
             IF errorData.str # None THEN errorData.str[1]
             ELSE IF TruthyStr(errorData.error) THEN errorData.error[1]
             ELSE IF TruthyStr(errorData.message) THEN errorData.message[1]
             ELSE IF TruthyStr(errorData.details) THEN errorData.details[1]
             ELSE <<"An unexpected error occurred">>
    ELSE AxiosMessage(o)
interceptorMessage(o) ==
    IF Unauthorized(o) THEN <<"Session expired. Please log in again.">>
    ELSE IF o.kind = "response" /\ o.data # None /\ o.data[1].str # Some(<< >>)
        THEN LET errorData == o.data[1] IN
             IF errorData.str # None THEN errorData.str[1]
             ELSE IF TruthyStr(errorData.message) THEN errorData.message[1]
             ELSE IF TruthyStr(errorData.error) THEN errorData.error[1]
             ELSE IF TruthyStr(errorData.details) THEN errorData.details[1]
             ELSE <<"An unexpected error occurred">>
    ELSE AxiosMessage(o)

\* this.api.post(...): the response, or the Error the interceptor rejects with
\* (a new Error, no longer an AxiosError, without the response)
apiPost(o) ==
    IF Fulfilled(o)
    THEN [ok |-> TRUE, response |-> o]
    ELSE [ok |-> FALSE, isAxiosError |-> FALSE, status |-> None, data |-> None,
          message |-> interceptorMessage(o)]

\* the catch block of uploadToCloudinary
cloudinaryCatch(e) ==
    IF e.isAxiosError /\ e.status = Some(400) /\ e.data = None
        THEN [e EXCEPT !.isAxiosError = FALSE, !.message =
                <<"Cannot read properties of undefined (reading 'message')">>]
    ELSE IF e.isAxiosError /\ e.status = Some(400) /\ e.data # None /\ e.data[1].str # None
       /\ Includes(e.data[1].str[1], "Invalid extension in transformation")
        THEN [e EXCEPT !.isAxiosError = FALSE, !.message =
                <<"Erreur de configuration Cloudinary. Veuillez contacter l'administrateur.">>]
    ELSE IF e.isAxiosError /\ e.status = Some(400) /\ e.data # None
            /\ TruthyStr(e.data[1].message)
        THEN [e EXCEPT !.isAxiosError = FALSE, !.message =
                <<"Erreur Cloudinary: ">> \o e.data[1].message[1]]
    ELSE IF e.isAxiosError /\ e.status = Some(413)
        THEN [e EXCEPT !.isAxiosError = FALSE, !.message =
                <<"Le fichier est trop volumineux pour etre uploade">>]
    ELSE IF e.isAxiosError /\ e.status = Some(415)
        THEN [e EXCEPT !.isAxiosError = FALSE, !.message = <<"Type de fichier non supporte">>]
    ELSE e

PlainError(msg) ==
    [ok |-> FALSE, isAxiosError |-> FALSE, status |-> None, data |-> None, message |-> msg]

\* uploadToCloudinary after its request has settled
uploadToCloudinary(o) ==
    LET r == apiPost(o) IN
    IF r.ok
    THEN IF r.response.data = None
         THEN cloudinaryCatch(PlainError(<<"Reponse vide du serveur">>))
         ELSE r
    ELSE cloudinaryCatch(r)

\* ApiService.uploadImage after its request has settled: the error is rethrown as it is
apiUploadImage(o) == apiPost(o)

\* getImageUrl
baseUrl(prod) ==
    IF prod
    THEN <<"h", "t", "t", "p", "s", ":", "/", "/", "a", "v", "o", "l", "t", "a">>
    ELSE <<"h", "t", "t", "p", ":", "/", "/", "l", "o", "c", "a", "l">>

UploadsPath == <<"/", "a", "p", "i", "/", "u", "p", "l", "o", "a", "d", "s", "/">>

getImageUrl_noUploadsPath(filename, prod) ==
    IF Len(filename) = 0 THEN << >>
    ELSE IF StartsWithHttp(filename) THEN filename
    ELSE baseUrl(prod) \o <<"/">> \o filename
getImageUrl(filename, prod) ==
    IF Len(filename) = 0 THEN << >>
    ELSE IF StartsWithHttp(filename) THEN filename
    ELSE baseUrl(prod) \o UploadsPath \o filename

-----------------------------------------------------------------------------
(* ImageUploadService *)

\* the catch block of uploadImage: every value thrown in the try block is an Error
uploadImageCatch(msg) ==
    IF ~Includes(msg, ErrUploadPhrase) THEN UploadPrefix \o msg ELSE msg

\* the catch block of uploadImageClassic
uploadImageClassicCatch(msg) == UploadPrefix \o msg

HttpErrorMessage(resp) ==
    <<"Erreur HTTP ", ToString(resp.status), ": ", resp.statusText>>

\* lines 46-58 of uploadImage: where the image properties are looked for
selectImageData(responseData) ==
    IF responseData.data # None THEN Some(responseData.data[1])
    ELSE IF TruthyStr(responseData.top.imageUrl) THEN Some(responseData.top)
    ELSE None

\* line 60 of uploadImage: the image data gives a URL
hasImageUrl_unchecked(imageData) == TRUE
hasImageUrl(imageData) == TruthyStr(imageData.imageUrl) \/ TruthyStr(imageData.url)

\* lines 67-78 of uploadImage; every property of the result is an optional value
buildResult_fileFirst(imageData, f) ==
    [imageUrl |-> OrStr(imageData.imageUrl, imageData.url),
     publicId |-> OrStr(imageData.publicId, imageData.public_id),
     originalFileName |->
        OrStr(Some(f.name), OrStr(imageData.originalFileName, imageData.original_filename)),
     fileSize |-> OrNum(Some(f.size), OrNum(imageData.fileSize, imageData.file_size)),
     width |-> imageData.width,
     height |-> imageData.height,
     dimensions |->
        IF imageData.dimensions # None THEN imageData.dimensions
        ELSE IF TruthyNum(imageData.width) /\ TruthyNum(imageData.height)
            THEN Some([width |-> imageData.width[1], height |-> imageData.height[1]])
        ELSE None]
buildResult(imageData, f) ==
    [imageUrl |-> OrStr(imageData.imageUrl, imageData.url),
     publicId |-> OrStr(imageData.publicId, imageData.public_id),
     originalFileName |->
        OrStr(OrStr(imageData.originalFileName, imageData.original_filename), Some(f.name)),
     fileSize |-> OrNum(OrNum(imageData.fileSize, imageData.file_size), Some(f.size)),
     width |-> imageData.width,
     height |-> imageData.height,
     dimensions |->
        IF imageData.dimensions # None THEN imageData.dimensions
        ELSE IF TruthyNum(imageData.width) /\ TruthyNum(imageData.height)
            THEN Some([width |-> imageData.width[1], height |-> imageData.height[1]])
        ELSE None]

\* the try block of uploadImage after api.uploadToCloudinary has settled
uploadImageTry(f, o) ==
    LET r == uploadToCloudinary(o) IN
    IF ~r.ok THEN Throw(r.message)
    ELSE IF r.response.status # 200 THEN Throw(HttpErrorMessage(r.response))
    ELSE IF r.response.data = None THEN Throw(<<"Reponse vide du serveur">>)
    ELSE LET responseData == r.response.data[1]
             imageData == selectImageData(responseData)
         IN  IF responseData.success = Some(FALSE)
                THEN Throw(IF TruthyStr(responseData.message)
                           THEN responseData.message[1]
                           ELSE <<ErrUploadPhrase>>)
             ELSE IF imageData = None
                THEN Throw(<<"Format de reponse invalide du serveur">>)
             ELSE IF ~hasImageUrl(imageData[1])
                THEN Throw(<<"URL de l'image manquante dans la reponse">>)
             ELSE [ok |-> TRUE, value |-> buildResult(imageData[1], f)]

\* lines 132-142 of uploadImageClassic
classicImageUrl_definedOnly(responseData, prod) ==
    IF responseData.fileUrl # None THEN responseData.fileUrl
    ELSE IF responseData.filename # None
        THEN Some(getImageUrl(responseData.filename[1], prod))
    ELSE IF responseData.top.url # None THEN responseData.top.url
    ELSE None
classicImageUrl(responseData, prod) ==
    IF TruthyStr(responseData.fileUrl) THEN responseData.fileUrl
    ELSE IF TruthyStr(responseData.filename)
        THEN Some(getImageUrl(responseData.filename[1], prod))
    ELSE IF TruthyStr(responseData.top.url) THEN responseData.top.url
    ELSE None

\* lines 144-151 of uploadImageClassic
buildClassicResult(imageUrl, responseData, f) ==
    [imageUrl |-> imageUrl,
     publicId |-> None,
     originalFileName |-> OrStr(responseData.top.originalFileName, Some(f.name)),
     fileSize |-> OrNum(responseData.top.fileSize, Some(f.size)),
     width |-> responseData.top.width,
     height |-> responseData.top.height,
     dimensions |-> responseData.top.dimensions]

\* the try block of uploadImageClassic after api.uploadImage has settled
uploadImageClassicTry(f, o, prod) ==
    LET r == apiUploadImage(o) IN
    IF ~r.ok THEN Throw(r.message)
    ELSE IF r.response.status # 200 THEN Throw(HttpErrorMessage(r.response))
    ELSE IF r.response.data = None
        THEN Throw(<<"Reponse vide du serveur">>)
    ELSE LET responseData == r.response.data[1]
             imageUrl == classicImageUrl(responseData, prod)
         IN  IF imageUrl = None
                THEN Throw(<<"Impossible de determiner l'URL de l'image">>)
             ELSE [ok |-> TRUE, value |-> buildClassicResult(imageUrl, responseData, f)]

-----------------------------------------------------------------------------
(* The state machine of one service call at a time *)

Sessions ==
    { [token |-> None, currentUser |-> None],
      [token |-> Some(<<"t", "1">>), currentUser |-> Some(<<"admin">>)] }

\* no service call is in progress
InitCall ==
    /\ op = "none"
    /\ file = NullFile
    /\ pc = "idle"
    /\ requests = << >>
    /\ response = None
    /\ result = None
    /\ error = << >>

\* the number of handleFileUpload calls followed in one behaviour
MaxUploads == 2

IdleUploadState == [isUploading |-> FALSE, progress |-> 0, error |-> None, success |-> FALSE]
NoUpload == [stage |-> "none", file |-> NullFile, requests |-> << >>]

\* the widget after its first render (lines 46-56 of the widget)
InitWidget ==
    /\ uploadState = IdleUploadState
    /\ previewUrl = None
    /\ liveUrls = {}
    /\ uploads = [k \in 1..MaxUploads |-> NoUpload]
    /\ intervals = 0
    /\ mounted = TRUE
    /\ reported = None

\* the number of 401 responses followed in one behaviour
MaxRedirects == 2

\* the number of ApiService calls followed side by side in one behaviour
MaxCalls == 2

NoCall == [state |-> "none", op |-> "none", requests |-> << >>, response |-> << >>,
           message |-> << >>]

\* the page has just loaded: no redirect yet, no call made
InitSession ==
    /\ redirects = 0
    /\ unloaded = FALSE
    /\ calls = [k \in 1..MaxCalls |-> NoCall]

\* resizeImage has not been called
NoResize ==
    [stage |-> "idle", img |-> [loaded |-> FALSE, width |-> 0, height |-> 0],
     maxWidth |-> 0, maxHeight |-> 0, width |-> 0, height |-> 0]

\* the form is not mounted
NoForm == [mounted |-> FALSE]

InitForm ==
    /\ form = NoForm
    /\ resize = NoResize

Init ==
    /\ PROD \in BOOLEAN
    /\ localStorage \in Sessions
    /\ location = "/admin"
    /\ InitCall
    /\ showPreview = TRUE
    /\ InitWidget
    /\ InitSession
    /\ InitForm

\* the side effects of the response interceptor
ResponseEffects(o) ==
    IF Unauthorized(o)
    THEN /\ redirects < MaxRedirects
         /\ localStorage' = [localStorage EXCEPT !.token = None, !.currentUser = None]
         /\ location' = "/login"
         /\ redirects' = redirects + 1
    ELSE UNCHANGED <<localStorage, location, redirects>>

\* a call of a service operation, up to its await: validateFile, then the request
Call(name, url, f, catch(_)) ==
    /\ op' = name
    /\ file' = f
    /\ response' = None
    /\ result' = None
    /\ LET v == validateFile(f) IN
       IF v.ok
       THEN /\ requests' = <<requestInterceptor(url, localStorage)>>
            /\ pc' = "pending"
            /\ error' = << >>
       ELSE /\ requests' = << >>
            /\ pc' = "rejected"
            /\ error' = catch(v.message)
    /\ UNCHANGED <<envVars, widgetVars, redirects, sessionVars, formVars, hostVars>>

\* the rest of a call once the transport has answered
Settle(o, t, catch(_)) ==
    /\ response' = Some(o)
    /\ ResponseEffects(o)
    /\ IF t.ok
       THEN /\ pc' = "resolved"
            /\ result' = Some(t.value)
            /\ error' = << >>
       ELSE /\ pc' = "rejected"
            /\ result' = None
            /\ error' = catch(t.message)
    /\ UNCHANGED <<PROD, op, file, requests, widgetVars, sessionVars, formVars, hostVars>>

uploadImage(f) ==
    /\ pc = "idle"
    /\ Call("uploadImage", "/images/upload", f, uploadImageCatch)

uploadImageSettle(o) ==
    /\ pc = "pending"
    /\ op = "uploadImage"
    /\ Settle(o, uploadImageTry(file, o), uploadImageCatch)

uploadImageClassic(f) ==
    /\ pc = "idle"
    /\ Call("uploadImageClassic", "/upload/image", f, uploadImageClassicCatch)

uploadImageClassicSettle(o) ==
    /\ pc = "pending"
    /\ op = "uploadImageClassic"
    /\ Settle(o, uploadImageClassicTry(file, o, PROD), uploadImageClassicCatch)

\* the caller has taken the settled promise; the service is ready for the next call
Return ==
    /\ pc \in {"resolved", "rejected"}
    /\ pc' = "idle"
    /\ op' = "none"
    /\ file' = NullFile
    /\ requests' = << >>
    /\ response' = None
    /\ result' = None
    /\ error' = << >>
    /\ UNCHANGED <<envVars, widgetVars, redirects, sessionVars, formVars>>
    /\ UNCHANGED hostVars

Next ==
    \/ \E f \in Files : uploadImage(f)
    \/ \E o \in Outcomes : uploadImageSettle(o)
    \/ \E f \in Files : uploadImageClassic(f)
    \/ \E o \in Outcomes : uploadImageClassicSettle(o)
    \/ Return

Spec == Init /\ [][Next]_vars

-----------------------------------------------------------------------------
(* Properties of the service calls, checked under Spec *)

Called == op \in {"uploadImage", "uploadImageClassic"} /\ ~file.isNull
Settled == pc \in {"resolved", "rejected"}

\* the call was rejected before anything was handed to the HTTP client
RejectedUnsent == pc = "rejected" /\ requests = << >> /\ response = None
\* the call passed validation: its one request went to the HTTP client
Sent == Len(requests) = 1

AllowedTypes ==
    { <<"image/", "jpeg">>, <<"image/", "jpg">>, <<"image/", "png">>, <<"image/", "gif">>,
      <<"image/", "webp">>, <<"image/", "bmp">>, <<"image/", "tiff">> }
AllowedSize(n) == 0 < n /\ n <= 10485760
ForbiddenChar(c) == c \in {"<", ">", ":", "\"", "/", "\\", "|", "?", "*"}
AllowedName(n) == Len(n) <= 255 /\ \A i \in 1..Len(n) : ~ForbiddenChar(n[i])

\* C1: a call of uploadImage or uploadImageClassic with a file whose MIME type is
\* not one of the seven supported types is rejected, and no request is handed to
\* the HTTP client for it.
C1_DisallowedTypeRejectedUnsent ==
    (Called /\ file.type \notin AllowedTypes) => RejectedUnsent

C1_Witness ==
    /\ op = "uploadImage"
    /\ file.type = <<"image/", "svg+xml">>
    /\ AllowedSize(file.size)
    /\ AllowedName(file.name)
    /\ RejectedUnsent

\* C2: a file of more than 10 MiB or of 0 bytes is rejected without a request; a
\* file of exactly 10 MiB with an allowed type and name passes validation.
C2_SizeLimits ==
    /\ (Called /\ (file.size > 10485760 \/ file.size = 0)) => RejectedUnsent
    /\ (Called /\ file.size = 10485760 /\ file.type \in AllowedTypes
            /\ AllowedName(file.name)) => Sent

C2_Witness ==
    /\ op = "uploadImageClassic"
    /\ file.size = 10485760
    /\ pc = "pending"
    /\ Sent

\* C3: a file whose name is longer than 255 characters or contains one of
\* < > : " / \ | ? * is rejected without a request; a name of exactly 255 allowed
\* characters is accepted.
C3_NameLimits ==
    /\ (Called /\ ~AllowedName(file.name)) => RejectedUnsent
    /\ (Called /\ Len(file.name) = 255 /\ AllowedName(file.name)
            /\ file.type \in AllowedTypes /\ AllowedSize(file.size)) => Sent

C3_Witness ==
    /\ op = "uploadImage"
    /\ Len(file.name) = 255
    /\ AllowedName(file.name)
    /\ pc = "pending"
    /\ Sent

\* the response of the settled call and its body
Answered == response # None
Http200 == Answered /\ response[1].kind = "response" /\ response[1].status = 200
Http2xx == Answered /\ response[1].kind = "response" /\ response[1].status \in 200..299
HasBody == Answered /\ response[1].data # None
Body == response[1].data[1]
Res == result[1]

\* an optional string / number of a response that holds a value other than "" / 0
Given(o) == o # None /\ o[1] # << >>
GivenNum(o) == o # None /\ o[1] # 0

\* the result's publicId, originalFileName, fileSize, width and height are those
\* of the image properties d, camelCase before snake_case
TakenFrom(d) ==
    /\ Given(d.publicId) => Res.publicId = d.publicId
    /\ (~Given(d.publicId) /\ Given(d.public_id)) => Res.publicId = d.public_id
    /\ Given(d.originalFileName) => Res.originalFileName = d.originalFileName
    /\ (~Given(d.originalFileName) /\ Given(d.original_filename))
            => Res.originalFileName = d.original_filename
    /\ GivenNum(d.fileSize) => Res.fileSize = d.fileSize
    /\ (~GivenNum(d.fileSize) /\ GivenNum(d.file_size)) => Res.fileSize = d.file_size
    /\ d.width # None => Res.width = d.width
    /\ d.height # None => Res.height = d.height

\* C4: an HTTP 200 response in any of the four shapes (top-level camelCase, the
\* {success, data} envelope, snake_case fields, the classic fileUrl/filename) that
\* carries an image URL makes the upload resolve with that URL as imageUrl and with
\* publicId, originalFileName, fileSize, width and height taken from the response.
C4_FourShapesNormalized ==
    /\ (op = "uploadImage" /\ Http200 /\ HasBody) =>
        /\ (Body.data = None /\ Body.success # Some(FALSE) /\ Given(Body.top.imageUrl)) =>
            (pc = "resolved" /\ Res.imageUrl = Body.top.imageUrl /\ TakenFrom(Body.top))
        /\ (Body.data # None /\ Body.success = Some(TRUE) /\ Given(Body.data[1].imageUrl)) =>
            (pc = "resolved" /\ Res.imageUrl = Body.data[1].imageUrl
                /\ TakenFrom(Body.data[1]))
        /\ LET d == IF Body.data # None THEN Body.data[1] ELSE Body.top IN
           (Body.success # Some(FALSE) /\ ~Given(d.imageUrl) /\ Given(d.url)) =>
            (pc = "resolved" /\ Res.imageUrl = d.url /\ TakenFrom(d))
    /\ (op = "uploadImageClassic" /\ Http200 /\ HasBody) =>
        /\ Given(Body.fileUrl) => (pc = "resolved" /\ Res.imageUrl = Body.fileUrl)
        /\ (~Given(Body.fileUrl) /\ Given(Body.filename)) =>
            (pc = "resolved" /\ Given(Res.imageUrl))
        /\ (Given(Body.fileUrl) \/ Given(Body.filename)) =>
            /\ Given(Body.top.originalFileName) =>
                Res.originalFileName = Body.top.originalFileName
            /\ GivenNum(Body.top.fileSize) => Res.fileSize = Body.top.fileSize
            /\ Body.top.width # None => Res.width = Body.top.width
            /\ Body.top.height # None => Res.height = Body.top.height

\* no URL at the top level nor under data / no fileUrl, filename or url
NoUrlForUploadImage ==
    HasBody =>
        /\ ~Given(Body.top.imageUrl) /\ ~Given(Body.top.url)
        /\ Body.data # None => (~Given(Body.data[1].imageUrl) /\ ~Given(Body.data[1].url))
NoUrlForClassic ==
    HasBody => (~Given(Body.fileUrl) /\ ~Given(Body.filename) /\ ~Given(Body.top.url))

\* C5: an HTTP 200 response whose body has no recognizable URL field makes the
\* upload operation reject instead of resolving.
C5_MissingUrlRejected ==
    /\ (op = "uploadImage" /\ Http200 /\ NoUrlForUploadImage) => pc = "rejected"
    /\ (op = "uploadImageClassic" /\ Http200 /\ NoUrlForClassic) => pc = "rejected"

C5_Witness ==
    /\ op = "uploadImage"
    /\ Http200 /\ HasBody
    /\ Body.success = Some(TRUE)
    /\ Body.data = Some(NoFields)
    /\ pc = "rejected"
    /\ error = <<ErrUploadPhrase, " de l'image: ", "URL de l'image manquante dans la reponse">>

\* C6: whenever uploadImage or uploadImageClassic resolves, the result's imageUrl is
\* present and non-empty.
C6_ResolvedHasImageUrl ==
    pc = "resolved" => (result # None /\ Given(Res.imageUrl))

C6_Witness ==
    /\ op = "uploadImageClassic"
    /\ pc = "resolved"
    /\ Body.fileUrl = Some(<< >>)
    /\ Body.filename = None
    /\ Res.imageUrl = Body.top.url

\* a URL can be found at the top level or under data
Discoverable ==
    \/ Given(Body.top.imageUrl) \/ Given(Body.top.url)
    \/ Body.data # None /\ (Given(Body.data[1].imageUrl) \/ Given(Body.data[1].url))

\* s ends with t
EndsWith(s, t) == Len(s) >= Len(t) /\ SubSeq(s, Len(s) - Len(t) + 1, Len(s)) = t

\* C7: uploadImage resolves only for a success status with a non-empty body; every
\* response with a success status, a non-empty body and a discoverable imageUrl/url
\* (top level or under data) is accepted; a body with success === false is rejected
\* with the backend's message.
C7_AcceptedIffDiscoverable ==
    /\ (op = "uploadImage" /\ pc = "resolved") => (Http2xx /\ HasBody)
    /\ (op = "uploadImage" /\ Http2xx /\ HasBody) =>
        /\ (Body.success # Some(FALSE) /\ Discoverable) => pc = "resolved"
        /\ Body.success = Some(FALSE) =>
            /\ pc = "rejected"
            /\ Given(Body.message) => EndsWith(error, Body.message[1])

\* the image properties uploadImage reads: those under data when there is a data
ReadFrom == IF Body.data # None THEN Body.data[1] ELSE Body.top

\* C8 as stated: with {success:true, data:{imageUrl:U, publicId:P}} the result is
\* U, P, file.name, file.size; and any response value for originalFileName/fileSize
\* takes precedence, the file's value being used only when the response gives none.
C8_ResponseValueWins ==
    (op = "uploadImage" /\ pc = "resolved") =>
        /\ ReadFrom.originalFileName # None => Res.originalFileName = ReadFrom.originalFileName
        /\ ReadFrom.fileSize # None => Res.fileSize = ReadFrom.fileSize
        /\ Res.originalFileName = Some(file.name) =>
            (ReadFrom.originalFileName = None /\ ReadFrom.original_filename = None)
        /\ Res.fileSize = Some(file.size) =>
            (ReadFrom.fileSize = None /\ ReadFrom.file_size = None)

\* C8 amended: a response value that is not "" / 0 takes precedence (originalFileName
\* before original_filename, fileSize before file_size); the file's name / size is
\* used when the response gives no such value.
C8_NonEmptyResponseValueWins ==
    (op = "uploadImage" /\ pc = "resolved") =>
        /\ Given(ReadFrom.originalFileName) =>
            Res.originalFileName = ReadFrom.originalFileName
        /\ (~Given(ReadFrom.originalFileName) /\ Given(ReadFrom.original_filename)) =>
            Res.originalFileName = ReadFrom.original_filename
        /\ (~Given(ReadFrom.originalFileName) /\ ~Given(ReadFrom.original_filename)) =>
            Res.originalFileName = Some(file.name)
        /\ GivenNum(ReadFrom.fileSize) => Res.fileSize = ReadFrom.fileSize
        /\ (~GivenNum(ReadFrom.fileSize) /\ GivenNum(ReadFrom.file_size)) =>
            Res.fileSize = ReadFrom.file_size
        /\ (~GivenNum(ReadFrom.fileSize) /\ ~GivenNum(ReadFrom.file_size)) =>
            Res.fileSize = Some(file.size)
        /\ (Body.success = Some(TRUE) /\ Body.data # None /\ Given(Body.data[1].imageUrl)) =>
            /\ Res.imageUrl = Body.data[1].imageUrl
            /\ Given(Body.data[1].publicId) => Res.publicId = Body.data[1].publicId

C8_Witness ==
    /\ op = "uploadImage"
    /\ pc = "resolved"
    /\ Body = [EmptyObject EXCEPT !.success = Some(TRUE), !.data =
                Some([NoFields EXCEPT !.imageUrl = Some(Url("1")),
                                      !.publicId = Some(<<"p", "1">>)])]
    /\ Res.imageUrl = Some(Url("1"))
    /\ Res.publicId = Some(<<"p", "1">>)
    /\ Res.originalFileName = Some(file.name)
    /\ Res.fileSize = Some(file.size)

\* <base>/api/uploads/F
UploadsUrl(F) ==
    (IF PROD THEN <<"h", "t", "t", "p", "s", ":", "/", "/", "a", "v", "o", "l", "t", "a">>
             ELSE <<"h", "t", "t", "p", ":", "/", "/", "l", "o", "c", "a", "l">>)
    \o <<"/", "a", "p", "i", "/", "u", "p", "l", "o", "a", "d", "s", "/">> \o F

\* C10 as stated: with a filename F and no fileUrl the classic upload resolves with
\* <base>/api/uploads/F for every non-empty F; fileUrl comes before filename, and
\* filename before url.
C10_FilenamePrefixed ==
    (op = "uploadImageClassic" /\ Http200 /\ HasBody) =>
        /\ (Body.fileUrl = None /\ Given(Body.filename)) =>
            (pc = "resolved" /\ Res.imageUrl = Some(UploadsUrl(Body.filename[1])))
        /\ Given(Body.fileUrl) => (pc = "resolved" /\ Res.imageUrl = Body.fileUrl)

\* C10 amended: with a non-empty filename F and no non-empty fileUrl the classic
\* upload resolves with <base>/api/uploads/F when F does not start with "http", and
\* with F itself when it does; a non-empty fileUrl comes before filename, and a
\* non-empty filename before url.
C10_FilenamePrefixedUnlessHttp ==
    (op = "uploadImageClassic" /\ Http200 /\ HasBody) =>
        /\ (~Given(Body.fileUrl) /\ Given(Body.filename)) =>
            /\ pc = "resolved"
            /\ Res.imageUrl =
                IF Len(Body.filename[1]) >= 4
                   /\ SubSeq(Body.filename[1], 1, 4) = <<"h", "t", "t", "p">>
                THEN Body.filename
                ELSE Some(UploadsUrl(Body.filename[1]))
        /\ Given(Body.fileUrl) => (pc = "resolved" /\ Res.imageUrl = Body.fileUrl)
        /\ (~Given(Body.fileUrl) /\ ~Given(Body.filename) /\ Given(Body.top.url)) =>
            (pc = "resolved" /\ Res.imageUrl = Body.top.url)

C10_Witness ==
    /\ op = "uploadImageClassic"
    /\ pc = "resolved"
    /\ ~PROD
    /\ Body.fileUrl = None
    /\ Body.filename = Some(<<"y", ".", "p", "n", "g">>)
    /\ Given(Body.top.url)
    /\ Res.imageUrl = Some(<<"h", "t", "t", "p", ":", "/", "/", "l", "o", "c", "a", "l",
                             "/", "a", "p", "i", "/", "u", "p", "l", "o", "a", "d", "s", "/",
                             "y", ".", "p", "n", "g">>)

-----------------------------------------------------------------------------
(* The ImageUpload widget (drag-and-drop / file picker with simulated progress) *)

\* UPLOAD_CONFIG
widgetMaxFileSize == 10 * 1024 * 1024
widgetMaxWidth == 4096
widgetMaxHeight == 4096
acceptedTypes ==
    { <<"image/", "jpeg">>, <<"image/", "png">>, <<"image/", "gif">>, <<"image/", "webp">> }

\* the widget's own validateFile: the message of the validation error, optional
widgetValidateFile(f) ==
    IF f.type \notin acceptedTypes
        THEN Some(<<"Type de fichier non supporte. Formats acceptes: ",
                    "image/jpeg, image/png, image/gif, image/webp">>)
    ELSE IF f.size > widgetMaxFileSize
        THEN Some(<<"Fichier trop volumineux. Taille maximale: ", "10.0", "MB">>)
    ELSE IF Len(f.name) > 255
        THEN Some(<<"Nom de fichier trop long (maximum 255 caracteres)">>)
    ELSE None

\* validateImageDimensions once the image has loaded ([width, height]) or failed to
Corrupt == [loaded |-> FALSE, width |-> 0, height |-> 0]
Picture(w, h) == [loaded |-> TRUE, width |-> w, height |-> h]

validateImageDimensions(img) ==
    IF ~img.loaded THEN Some(<<"Fichier image corrompu ou invalide">>)
    ELSE IF img.width > widgetMaxWidth \/ img.height > widgetMaxHeight
        THEN Some(<<"Dimensions trop importantes. Maximum: ", "4096", "x", "4096", "px">>)
    ELSE None

\* the catch block of handleFileUpload: error.message || 'Erreur lors du telechargement'
uploadFailed(st, msg) ==
    [st EXCEPT !.error = Some(IF Len(msg) > 0 THEN msg
                              ELSE <<"Erreur lors du telechargement">>),
               !.isUploading = FALSE,
               !.progress = 0]

\* lines 224-228 of handleFileUpload
uploadSucceeded(st) ==
    [st EXCEPT !.isUploading = FALSE, !.progress = 100, !.success = TRUE]

\* the updater of the progress interval, for a value r of Math.random() * 20
progressUpdate(st, r) ==
    IF st.progress < 90
    THEN [st EXCEPT !.progress = IF st.progress + r < 90 THEN st.progress + r ELSE 90]
    ELSE st

\* onProgress?.(newProgress) inside that updater: the value before Math.min
progressReport(st, r) ==
    IF st.progress < 90 THEN Some(st.progress + r) ELSE reported

\* onProgress?.(value): the value the host receives
onProgress(value) == Some(value)

\* setUploadState changes nothing once the widget is unmounted
setUploadState(st) == IF mounted THEN st ELSE uploadState

\* inputs of the widget
WidgetFiles ==
    { [isNull |-> FALSE, type |-> t, size |-> 1, name |-> <<"a", ".", "g">>] :
        t \in { <<"image/", "jpeg">>, <<"image/", "bmp">> } }
    \cup
    { [isNull |-> FALSE, type |-> <<"image/", "png">>, size |-> n, name |-> <<"a", ".", "g">>] :
        n \in {0, maxSize + 1} }
    \cup
    { [isNull |-> FALSE, type |-> <<"image/", "png">>, size |-> 1, name |-> <<"a", "*", "g">>] }

Pictures == { Picture(640, 480), Picture(4097, 480), Picture(640, 4097), Corrupt }

RandomSteps == {0, 7, 19}

WidgetOutcomes ==
    { HttpResponse(200, Some([EmptyObject EXCEPT !.success = Some(TRUE),
                                                 !.data = Some(ImageUrlOnly)])),
      HttpResponse(200, Some([EmptyObject EXCEPT !.top = UrlOnly])),
      HttpResponse(401, None),
      HttpResponse(500, Some([EmptyObject EXCEPT !.message = Some(<<"quota exceeded">>)])),
      NetworkFailure }

\* the page still runs: window.location.href has not been set to the login page
PageLoaded == location = "/admin"

\* the drop zone and the file input are rendered: displayImageUrl is empty
DropZoneShown == previewUrl = None

\* the remove button is rendered
PreviewShown == previewUrl # None

\* the object URLs of upload k
DimensionsUrl(k) == <<k, "dimensions">>
PreviewUrlOf(k) == <<k, "preview">>

\* the next call of handleFileUpload
FreeSlot(k) ==
    /\ uploads[k].stage = "none"
    /\ \A j \in 1..(k - 1) : uploads[j].stage # "none"

\* handleFileUpload up to its first await: a file is selected or dropped
handleFileUpload(k, f) ==
    /\ PageLoaded
    /\ mounted
    /\ DropZoneShown
    /\ FreeSlot(k)
    /\ LET started == [isUploading |-> TRUE, progress |-> 0, error |-> None, success |-> FALSE]
           validationError == widgetValidateFile(f)
       IN  IF validationError # None
           THEN /\ uploadState' = uploadFailed(started, validationError[1])
                /\ uploads' = [uploads EXCEPT ![k] =
                                [stage |-> "failed", file |-> f, requests |-> << >>]]
                /\ reported' = onProgress(0)
                /\ UNCHANGED liveUrls
           ELSE /\ uploadState' = started
                /\ uploads' = [uploads EXCEPT ![k] =
                                [stage |-> "dimensions", file |-> f, requests |-> << >>]]
                /\ liveUrls' = liveUrls \cup {DimensionsUrl(k)}
                /\ UNCHANGED reported
    /\ UNCHANGED <<envVars, callVars, showPreview, previewUrl, intervals>>
    /\ UNCHANGED <<redirects, sessionVars, formVars, mounted>>

\* handleFileUpload from the end of validateImageDimensions to the await of
\* imageUploadService.uploadImage, whose validateFile runs before its request
handleFileUploadChecked(k, img) ==
    /\ PageLoaded
    /\ uploads[k].stage = "dimensions"
    /\ LET f == uploads[k].file
           dimensionError == validateImageDimensions(img)
           v == validateFile(f)
           created == showPreview
           \* setPreviewUrl changes the state, and the cleanup of the
           \* [previewUrl] effect revokes the superseded URL, while mounted
           shown == IF created /\ mounted THEN Some(PreviewUrlOf(k)) ELSE previewUrl
           kept == IF created /\ mounted /\ previewUrl # None
                   THEN (liveUrls \ {DimensionsUrl(k)}) \ {previewUrl[1]}
                   ELSE liveUrls \ {DimensionsUrl(k)}
       IN  IF dimensionError # None
           THEN /\ uploadState' = setUploadState(uploadFailed(uploadState, dimensionError[1]))
                /\ uploads' = [uploads EXCEPT ![k].stage = "failed"]
                /\ liveUrls' = liveUrls \ {DimensionsUrl(k)}
                /\ reported' = onProgress(0)
                /\ UNCHANGED <<previewUrl, intervals>>
           ELSE /\ previewUrl' = shown
                /\ liveUrls' = IF created THEN kept \cup {PreviewUrlOf(k)} ELSE kept
                /\ intervals' = intervals + 1
                /\ IF v.ok
                   THEN /\ uploads' = [uploads EXCEPT
                                        ![k].stage = "uploading",
                                        ![k].requests =
                                            <<requestInterceptor("/images/upload", localStorage)>>]
                        /\ UNCHANGED <<uploadState, reported>>
                   ELSE /\ uploads' = [uploads EXCEPT ![k].stage = "failed"]
                        /\ uploadState' = setUploadState(
                                uploadFailed(uploadState, uploadImageCatch(v.message)))
                        /\ reported' = onProgress(0)
    /\ UNCHANGED <<envVars, callVars, showPreview, redirects, sessionVars, formVars, mounted>>

\* handleFileUpload after imageUploadService.uploadImage has settled
handleFileUploadSettled(k, o) ==
    /\ PageLoaded
    /\ uploads[k].stage = "uploading"
    /\ ResponseEffects(o)
    /\ LET t == uploadImageTry(uploads[k].file, o) IN
       IF t.ok
       THEN /\ intervals' = intervals - 1
            /\ uploadState' = setUploadState(uploadSucceeded(uploadState))
            /\ uploads' = [uploads EXCEPT ![k].stage = "succeeded"]
            /\ reported' = onProgress(100)
       ELSE /\ uploadState' = setUploadState(
                    uploadFailed(uploadState, uploadImageCatch(t.message)))
            /\ uploads' = [uploads EXCEPT ![k].stage = "failed"]
            /\ reported' = onProgress(0)
            /\ UNCHANGED intervals
    /\ UNCHANGED <<PROD, callVars, showPreview, previewUrl, liveUrls, sessionVars, formVars>>
    /\ UNCHANGED mounted

\* a progress interval fires
progressTick(r) ==
    /\ PageLoaded
    /\ mounted
    /\ intervals > 0
    /\ uploadState' = progressUpdate(uploadState, r)
    /\ reported' = progressReport(uploadState, r)
    /\ UNCHANGED <<envVars, callVars, showPreview, previewUrl, liveUrls, uploads, intervals>>
    /\ UNCHANGED <<redirects, sessionVars, formVars, mounted>>

\* the timeout of the [uploadState.success] effect fires
clearSuccess ==
    /\ PageLoaded
    /\ mounted
    /\ uploadState.success
    /\ uploadState' = [uploadState EXCEPT !.success = FALSE]
    /\ UNCHANGED <<envVars, callVars, showPreview, previewUrl, liveUrls, uploads, intervals>>
    /\ UNCHANGED <<redirects, sessionVars, formVars>>
    /\ UNCHANGED hostVars

\* the remove button is clicked
handleRemoveImage ==
    /\ PageLoaded
    /\ mounted
    /\ PreviewShown
    /\ liveUrls' = liveUrls \ {previewUrl[1]}
    /\ previewUrl' = None
    /\ uploadState' = [uploadState EXCEPT !.error = None, !.success = FALSE, !.progress = 0]
    /\ UNCHANGED <<envVars, callVars, showPreview, uploads, intervals>>
    /\ UNCHANGED <<redirects, sessionVars, formVars>>
    /\ UNCHANGED hostVars

\* the host removes the widget: the cleanup of the [previewUrl] effect revokes
\* the preview URL of the last render, the one of the [uploadState.success]
\* effect clears its timeout
unmount ==
    /\ PageLoaded
    /\ mounted
    /\ mounted' = FALSE
    /\ liveUrls' = IF previewUrl # None THEN liveUrls \ {previewUrl[1]} ELSE liveUrls
    /\ UNCHANGED <<envVars, callVars, showPreview, uploadState, previewUrl, uploads, intervals>>
    /\ UNCHANGED <<redirects, sessionVars, formVars, reported>>

InitWidgetSpec ==
    /\ PROD = FALSE
    /\ localStorage \in Sessions
    /\ location = "/admin"
    /\ InitCall
    /\ showPreview \in BOOLEAN
    /\ InitWidget
    /\ InitSession
    /\ InitForm

NextWidget ==
    \/ \E k \in 1..MaxUploads, f \in WidgetFiles : handleFileUpload(k, f)
    \/ \E k \in 1..MaxUploads, img \in Pictures : handleFileUploadChecked(k, img)
    \/ \E k \in 1..MaxUploads, o \in WidgetOutcomes : handleFileUploadSettled(k, o)
    \/ \E r \in RandomSteps : progressTick(r)
    \/ clearSuccess
    \/ handleRemoveImage
    \/ unmount

SpecWidget == InitWidgetSpec /\ [][NextWidget]_vars

\* the requests of upload k that went to the endpoint url
RequestsTo(k, url) == { i \in 1..Len(uploads[k].requests) : uploads[k].requests[i].url = url }

\* C9: when the primary upload (/images/upload) fails, the secondary endpoint
\* (/upload/image) is attempted exactly once for that upload; it is never
\* attempted when the primary succeeds, and never repeated.
C9_OneFallbackAfterPrimaryFailure ==
    \A k \in 1..MaxUploads :
        /\ (uploads[k].stage = "failed" /\ RequestsTo(k, "/images/upload") # {}) =>
            Cardinality(RequestsTo(k, "/upload/image")) = 1
        /\ uploads[k].stage = "succeeded" => RequestsTo(k, "/upload/image") = {}
        /\ Cardinality(RequestsTo(k, "/upload/image")) <= 1

\* C12: a 401 answer to the widget's upload is handled by the HTTP client
\* alone: the widget does not enter its error state with the message of the
\* 401 (it shows no error because of it).
C12_UnauthorizedHandledGlobally ==
    location = "/login" =>
        \/ uploadState.error = None
        \/ ~Includes(uploadState.error[1], "Session expired. Please log in again.")

Uploading == uploadState.isUploading
Success == uploadState.success
Error == uploadState.error # None

\* C20: the widget's state is one of Idle, Uploading, Success, Error: at most
\* one of Uploading, Success and Error holds, whatever files are selected,
\* dropped or removed and however the uploads end, also when a second upload
\* starts while the first is in flight.
C20_OneStatusAtATime ==
    /\ ~(Uploading /\ Success)
    /\ ~(Uploading /\ Error)
    /\ ~(Success /\ Error)

\* an upload request of the widget is in flight
InFlight == \E k \in 1..MaxUploads : uploads[k].stage = "uploading"

\* upload k is confirmed by the service in this step
Confirmed(k) == uploads[k].stage = "uploading" /\ uploads'[k].stage = "succeeded"

\* C21: while an upload is in flight the stored progress only increases on
\* timer ticks and never exceeds 90; it becomes 100 only when the service has
\* confirmed an upload; it is within 0..100 in every reachable state.
C21_ProgressSimulated ==
    [][/\ uploadState'.progress \in 0..100
       /\ (\E k \in 1..MaxUploads : uploads'[k].stage = "uploading") =>
                uploadState'.progress <= 90
       /\ (InFlight /\ \E r \in RandomSteps : progressTick(r)) =>
                uploadState'.progress >= uploadState.progress
       /\ (uploadState'.progress = 100 /\ uploadState.progress # 100) =>
                \E k \in 1..MaxUploads : Confirmed(k)]_vars

\* an upload has started and has not settled
Unsettled == \E k \in 1..MaxUploads : uploads[k].stage \in {"dimensions", "uploading"}

\* C27: once an upload has settled, by success or by failure of the service
\* call, its progress timer is stopped: while no upload is under way a timer
\* tick neither changes the stored progress nor invokes onProgress.
C27_TimerStoppedOnceSettled ==
    [][(~Unsettled /\ \E r \in RandomSteps : progressTick(r)) =>
            /\ uploadState'.progress = uploadState.progress
            /\ reported' = reported]_vars

\* C30: every value passed to onProgress lies in 0..100 and is the progress
\* stored in the state of the mounted widget at that moment; while an upload
\* is in flight no value above 90 is reported.
C30_ReportedProgressIsStored ==
    [][(mounted' /\ reported' # reported) =>
            /\ reported'[1] \in 0..100
            /\ reported'[1] = uploadState'.progress
            /\ (\E k \in 1..MaxUploads : uploads'[k].stage = "uploading") =>
                    reported'[1] <= 90]_vars

\* The timers fire, the image of the dimension check loads or fails, and the
\* transport answers; the user and the host act when they like.
FairSpecWidget ==
    /\ SpecWidget
    /\ WF_vars(clearSuccess)
    /\ WF_vars(\E r \in RandomSteps : progressTick(r))
    /\ WF_vars(\E k \in 1..MaxUploads, img \in Pictures : handleFileUploadChecked(k, img))
    /\ WF_vars(\E k \in 1..MaxUploads, o \in WidgetOutcomes : handleFileUploadSettled(k, o))

Idle == ~Uploading /\ ~Success /\ ~Error

\* C22: after an upload has ended in Success or in Error the upload state of
\* the widget, as long as it is mounted in a loaded page, returns to Idle:
\* timers clear the success and the error indication without a user action.
C22_RevertsToIdle ==
    (mounted /\ PageLoaded /\ ~Unsettled /\ (Success \/ Error))
        ~> (Idle \/ ~mounted \/ ~PageLoaded)

\* C24: every object URL the widget creates is revoked in the end: once the
\* widget is unmounted and no dimension check is still loading its image, no
\* created object URL remains unreleased.
C24_ObjectUrlsReleased ==
    (~mounted /\ \A k \in 1..MaxUploads : uploads[k].stage # "dimensions") => liveUrls = {}

\* upload k starts in this step; its service call settles in this step
Starts(k) == uploads[k].stage = "none" /\ uploads'[k].stage # "none"
Completes(k) == uploads[k].stage = "uploading" /\ uploads'[k].stage \in {"succeeded", "failed"}

\* C25: a selection or drop made while an upload is in flight starts a new
\* upload and does not cancel the first: the first keeps its request and
\* runs on; each completion is applied to the widget, and the completion that
\* comes last determines the state: Success alone when it succeeded, Error
\* alone when it failed.
C25_IndependentUploads ==
    [][\A k \in 1..MaxUploads :
        /\ Starts(k) =>
                \A j \in 1..MaxUploads \ {k} : uploads'[j] = uploads[j]
        /\ (mounted /\ Completes(k)
              /\ \A j \in 1..MaxUploads : uploads'[j].stage \notin {"dimensions", "uploading"}) =>
                /\ ~uploadState'.isUploading
                /\ uploads'[k].stage = "succeeded" =>
                        uploadState'.success /\ uploadState'.error = None
                /\ uploads'[k].stage = "failed" =>
                        ~uploadState'.success /\ uploadState'.error # None]_vars

-----------------------------------------------------------------------------
(* The operations of ApiService, called one at a time, and deleteImage *)

\* the config axios sends once the request interceptor has run
apiRequest(method, url, storage) == [method |-> method] @@ requestInterceptor(url, storage)

\* the error handler of the response interceptor rejects: nothing is sent again
afterRejection_resend(reqs) == reqs \o reqs
afterRejection(reqs) == reqs

Endpoints == { "/publications", "/users" }
PublicIds == { "", "p1" }
Tokens == { << >>, <<"t", "2">> }

\* a file that passes every validation
SomeFile == [isNull |-> FALSE, type |-> <<"image/", "png">>, size |-> 1, name |-> <<"a", ".", "g">>]

\* bodies of failed requests, with empty and missing properties
ApiErrorBodies ==
    ErrorBodies \cup
    { [EmptyObject EXCEPT !.str = Some(<< >>)],
      [EmptyObject EXCEPT !.message = Some(<< >>), !.error = Some(<<"E_UPLOAD">>)],
      [EmptyObject EXCEPT !.message = Some(<< >>), !.error = Some(<< >>),
                          !.details = Some(<<"see logs">>)],
      [EmptyObject EXCEPT !.message = Some(<<"not found">>)] }

ApiOutcomes ==
    { HttpResponse(200, Some([EmptyObject EXCEPT !.str = Some(<<"done">>)])),
      HttpResponse(200, None),
      HttpResponse(401, None),
      HttpResponse(401, Some([EmptyObject EXCEPT !.message = Some(<<"token expired">>)])),
      NetworkFailure }
    \cup { HttpResponse(s, d) : s \in {400, 500},
                                d \in {None} \cup {Some(b) : b \in ApiErrorBodies} }
    \cup { HttpResponse(s, d) :
                s \in {413, 415},
                d \in {None, Some([EmptyObject EXCEPT !.message = Some(<<"rejected">>)])} }

ClientOps == { "get", "post", "put", "delete", "uploadToCloudinary", "uploadImage" }

\* an operation of ApiService up to its await of this.api.<method>(...)
apiCall(name, method, url) ==
    /\ pc = "idle"
    /\ ~unloaded
    /\ op' = name
    /\ file' = NullFile
    /\ pc' = "pending"
    /\ requests' = <<apiRequest(method, url, localStorage)>>
    /\ response' = None
    /\ result' = None
    /\ error' = << >>
    /\ UNCHANGED <<envVars, widgetVars, redirects, sessionVars, formVars>>
    /\ UNCHANGED hostVars

get(endpoint) == apiCall("get", "GET", endpoint)
post(endpoint) == apiCall("post", "POST", endpoint)
put(endpoint) == apiCall("put", "PUT", endpoint)
delete(endpoint) == apiCall("delete", "DELETE", endpoint)
callUploadToCloudinary == apiCall("uploadToCloudinary", "POST", "/images/upload")
callApiUploadImage == apiCall("uploadImage", "POST", "/upload/image")

\* what the operation op settles with once the transport has answered o
apiSettled(name, o) ==
    IF name = "uploadToCloudinary" THEN uploadToCloudinary(o)
    ELSE IF name = "uploadImage" THEN apiUploadImage(o)
    ELSE apiPost(o)

\* the transport answers a call of an ApiService operation
apiSettle(o) ==
    /\ pc = "pending"
    /\ op \in ClientOps
    /\ ~unloaded
    /\ response' = Some(o)
    /\ ResponseEffects(o)
    /\ LET r == apiSettled(op, o) IN
       IF r.ok
       THEN /\ pc' = "resolved"
            /\ result' = Some(r.response)
            /\ error' = << >>
            /\ UNCHANGED requests
       ELSE /\ pc' = "rejected"
            /\ result' = None
            /\ error' = r.message
            /\ requests' = afterRejection(requests)
    /\ UNCHANGED <<PROD, op, file, widgetVars, sessionVars, formVars>>
    /\ UNCHANGED hostVars

\* the catch block of deleteImage: whatever was thrown, one fixed message
deleteImageCatch(msg) == <<"Erreur lors de la suppression de l'image">>

\* ImageUploadService.deleteImage up to its await
deleteImage(publicId) ==
    /\ pc = "idle"
    /\ ~unloaded
    /\ op' = "deleteImage"
    /\ file' = NullFile
    /\ response' = None
    /\ result' = None
    /\ IF publicId = ""
       THEN /\ requests' = << >>
            /\ pc' = "rejected"
            /\ error' = deleteImageCatch(<<"Public ID manquant">>)
       ELSE /\ requests' = <<apiRequest("DELETE", "/images/" \o publicId, localStorage)>>
            /\ pc' = "pending"
            /\ error' = << >>
    /\ UNCHANGED <<envVars, widgetVars, redirects, sessionVars, formVars>>
    /\ UNCHANGED hostVars

\* ImageUploadService.deleteImage after api.delete has settled
deleteImageSettle(o) ==
    /\ pc = "pending"
    /\ op = "deleteImage"
    /\ ~unloaded
    /\ response' = Some(o)
    /\ ResponseEffects(o)
    /\ LET r == apiPost(o) IN
       IF r.ok
       THEN /\ pc' = "resolved"
            /\ result' = None
            /\ error' = << >>
            /\ UNCHANGED requests
       ELSE /\ pc' = "rejected"
            /\ result' = None
            /\ error' = deleteImageCatch(r.message)
            /\ requests' = afterRejection(requests)
    /\ UNCHANGED <<PROD, op, file, widgetVars, sessionVars, formVars>>
    /\ UNCHANGED hostVars

setToken(token) ==
    /\ ~unloaded
    /\ localStorage' = [localStorage EXCEPT !.token = Some(token)]
    /\ UNCHANGED <<PROD, location, callVars, widgetVars, redirects, sessionVars, formVars>>
    /\ UNCHANGED hostVars

clearToken ==
    /\ ~unloaded
    /\ localStorage.token # None
    /\ localStorage' = [localStorage EXCEPT !.token = None]
    /\ UNCHANGED <<PROD, location, callVars, widgetVars, redirects, sessionVars, formVars>>
    /\ UNCHANGED hostVars

\* the navigation started by the 401 handler replaces the page
unload ==
    /\ location = "/login"
    /\ ~unloaded
    /\ unloaded' = TRUE
    /\ UNCHANGED <<envVars, callVars, widgetVars, redirects, calls, formVars>>
    /\ UNCHANGED hostVars

InitApi ==
    /\ PROD = FALSE
    /\ localStorage \in Sessions
    /\ location = "/admin"
    /\ InitCall
    /\ showPreview = TRUE
    /\ InitWidget
    /\ InitSession
    /\ InitForm

NextApi ==
    \/ \E e \in Endpoints : get(e)
    \/ \E e \in Endpoints : post(e)
    \/ \E e \in Endpoints : put(e)
    \/ \E e \in Endpoints : delete(e)
    \/ callUploadToCloudinary
    \/ callApiUploadImage
    \/ \E o \in ApiOutcomes : apiSettle(o)
    \/ \E id \in PublicIds : deleteImage(id)
    \/ \E o \in ApiOutcomes : deleteImageSettle(o)
    \/ \E t \in Tokens : setToken(t)
    \/ clearToken
    \/ unload
    \/ ~unloaded /\ Return

SpecApi == InitApi /\ [][NextApi]_vars

-----------------------------------------------------------------------------
(* Properties of the HTTP client, checked under SpecApi *)

ClientRejected == op \in ClientOps /\ pc = "rejected" /\ Answered

\* the transport answered with a status that is neither a success nor 401
HttpFailure ==
    /\ Answered
    /\ response[1].kind = "response"
    /\ response[1].status \notin 200..299
    /\ response[1].status # 401

\* C13: for every non-401 HTTP failure the Error of the HTTP client carries the
\* body itself if the body is a (non-empty) string, else the body's message,
\* else its error, else its details, a property counting as absent when it is
\* missing or empty; when the body is an object with none of them the message
\* is the fixed "An unexpected error occurred", and when there is no body it
\* is the generic message of the transport error.
C13_MessagePriority ==
    (ClientRejected /\ HttpFailure) =>
        IF ~HasBody \/ Body.str = Some(<< >>)
            THEN error = <<"Request failed with status code ", ToString(response[1].status)>>
        ELSE IF Body.str # None THEN error = Body.str[1]
        ELSE IF Given(Body.message) THEN error = Body.message[1]
        ELSE IF Given(Body.error) THEN error = Body.error[1]
        ELSE IF Given(Body.details) THEN error = Body.details[1]
        ELSE error = <<"An unexpected error occurred">>

C13_Witness ==
    /\ ClientRejected
    /\ HttpFailure
    /\ HasBody
    /\ Body.message = Some(<<"quota exceeded">>)
    /\ Given(Body.error)
    /\ Given(Body.details)
    /\ error = <<"quota exceeded">>

\* C14: a request is sent with the header Authorization: Bearer <token> when a
\* (non-empty) token is in localStorage at the moment it is sent, and with no
\* Authorization header otherwise; the token is read for every request.
C14_BearerIffTokenStored ==
    [][(pc' = "pending" /\ requests' # requests) =>
        \A i \in 1..Len(requests') :
            IF localStorage.token # None /\ localStorage.token[1] # << >>
            THEN requests'[i].Authorization = Some(<<"Bearer ">> \o localStorage.token[1])
            ELSE requests'[i].Authorization = None]_vars

\* a request sent after setToken("t2") carries the new token
C14_Witness ==
    /\ pc = "pending"
    /\ Len(requests) = 1
    /\ requests[1].Authorization = Some(<<"Bearer ", "t", "2">>)

\* C15: a call of get, post, put, delete, uploadToCloudinary or uploadImage
\* hands exactly one request to the transport, and none is added when the
\* request fails.
C15_OneRequestPerCall ==
    (op \in ClientOps) =>
        /\ Len(requests) = 1
        /\ pc \in {"pending", "resolved", "rejected"}

C15_Witness ==
    /\ ClientRejected
    /\ HttpFailure
    /\ Len(requests) = 1

\* C18: deleteImage(publicId) with a non-empty publicId issues exactly one
\* DELETE /images/{publicId}, and when the backend reports a failure with
\* message M it rejects with the message M.
C18_DeleteSurfacesBackendMessage ==
    (op = "deleteImage" /\ requests # << >>) =>
        /\ Len(requests) = 1
        /\ requests[1].method = "DELETE"
        /\ \E id \in PublicIds \ {""} : requests[1].url = "/images/" \o id
        /\ (pc = "rejected" /\ HttpFailure /\ HasBody /\ Body.str = None /\ Given(Body.message)) =>
                error = Body.message[1]

\* C29: for an answer that has passed through the response interceptor,
\* api.uploadToCloudinary rejects with its dedicated message when the status
\* is 413 or 415, and with "Erreur Cloudinary: M" when the status is 400 and
\* the body carries the message M.
C29_CloudinaryStatusMapping ==
    (op = "uploadToCloudinary" /\ pc = "rejected" /\ Answered
        /\ response[1].kind = "response") =>
        /\ response[1].status = 413 =>
                error = <<"Le fichier est trop volumineux pour etre uploade">>
        /\ response[1].status = 415 => error = <<"Type de fichier non supporte">>
        /\ (response[1].status = 400 /\ HasBody /\ Body.str = None /\ Given(Body.message)) =>
                error = <<"Erreur Cloudinary: ">> \o Body.message[1]

-----------------------------------------------------------------------------
(* Several calls of ApiService in flight at once *)

SessionCalls ==
    { [op |-> "get", method |-> "GET", url |-> "/publications"],
      [op |-> "post", method |-> "POST", url |-> "/publications"],
      [op |-> "delete", method |-> "DELETE", url |-> "/users"],
      [op |-> "uploadToCloudinary", method |-> "POST", url |-> "/images/upload"] }

SessionOutcomes ==
    { HttpResponse(200, Some([EmptyObject EXCEPT !.str = Some(<<"done">>)])),
      HttpResponse(401, None),
      HttpResponse(500, Some([EmptyObject EXCEPT !.message = Some(<<"quota exceeded">>)])) }

\* the next call
FreeCall(k) ==
    /\ calls[k].state = "none"
    /\ \A j \in 1..(k - 1) : calls[j].state # "none"

\* a call of an ApiService operation: the request interceptor runs, the request leaves
interceptRequest(k, c) ==
    /\ ~unloaded
    /\ FreeCall(k)
    /\ calls' = [calls EXCEPT ![k] =
                    [state |-> "pending", op |-> c.op,
                     requests |-> <<apiRequest(c.method, c.url, localStorage)>>,
                     response |-> None, message |-> << >>]]
    /\ UNCHANGED <<envVars, callVars, widgetVars, redirects, unloaded, formVars>>
    /\ UNCHANGED hostVars

\* the answer to call k arrives: the response interceptor runs
interceptResponse(k, o) ==
    /\ ~unloaded
    /\ calls[k].state = "pending"
    /\ ResponseEffects(o)
    /\ LET r == apiSettled(calls[k].op, o) IN
       calls' = [calls EXCEPT
                    ![k].state = IF r.ok THEN "fulfilled" ELSE "rejected",
                    ![k].response = Some(o),
                    ![k].message = IF r.ok THEN << >> ELSE r.message,
                    ![k].requests = IF r.ok THEN @ ELSE afterRejection(@)]
    /\ UNCHANGED <<PROD, callVars, widgetVars, unloaded, formVars>>
    /\ UNCHANGED hostVars

InitSessionSpec ==
    /\ PROD = FALSE
    /\ localStorage \in Sessions
    /\ location = "/admin"
    /\ InitCall
    /\ showPreview = TRUE
    /\ InitWidget
    /\ InitSession
    /\ InitForm

NextSession ==
    \/ \E k \in 1..MaxCalls, c \in SessionCalls : interceptRequest(k, c)
    \/ \E k \in 1..MaxCalls, o \in SessionOutcomes : interceptResponse(k, o)
    \/ unload

SpecSession == InitSessionSpec /\ [][NextSession]_vars

\* call k was answered with 401
Got401(k) == calls[k].response # None /\ Unauthorized(calls[k].response[1])

\* C11: once a call has been answered with 401, the stored token and the
\* stored current user are removed and the redirect to the login page has been
\* issued exactly once, also when several calls in flight are answered with 401.
C11_SessionClearedRedirectOnce ==
    (\E k \in 1..MaxCalls : Got401(k)) =>
        /\ localStorage.token = None
        /\ localStorage.currentUser = None
        /\ location = "/login"
        /\ redirects = 1

-----------------------------------------------------------------------------
(* ImageUploadService.resizeImage *)

\* the new dimensions (lines 285-297); canvas.width and canvas.height keep the
\* integer part of the value assigned to them (lines 299-300)
resizedDimensions(img, maxWidth, maxHeight) ==
    IF img.width > img.height
    THEN IF img.width > maxWidth
         THEN [width |-> maxWidth, height |-> (img.height * maxWidth) \div img.width]
         ELSE [width |-> img.width, height |-> img.height]
    ELSE IF img.height > maxHeight
         THEN [width |-> (img.width * maxHeight) \div img.height, height |-> maxHeight]
         ELSE [width |-> img.width, height |-> img.height]

\* canvas.toBlob gives null for a canvas without pixels
blobIsNull(canvas) == canvas.width = 0 \/ canvas.height = 0

ResizeSides == {1, 600, 1000, 2000, 3000, 4000}
ResizePictures == { Picture(w, h) : w \in ResizeSides, h \in ResizeSides } \cup { Corrupt }
ResizeBounds == { <<1200, 800>>, <<800, 1200>>, <<1000, 1000>> }

\* resizeImage up to the loading of the image
resizeImage(img, maxWidth, maxHeight) ==
    /\ resize.stage = "idle"
    /\ resize' = [NoResize EXCEPT !.stage = "loading", !.img = img,
                                  !.maxWidth = maxWidth, !.maxHeight = maxHeight]
    /\ UNCHANGED <<envVars, callVars, widgetVars, redirects, sessionVars, form>>
    /\ UNCHANGED hostVars

\* img.onload, then the callback of canvas.toBlob
resizeImageOnload ==
    /\ resize.stage = "loading"
    /\ resize.img.loaded
    /\ LET canvas == resizedDimensions(resize.img, resize.maxWidth, resize.maxHeight) IN
       resize' = [resize EXCEPT
                    !.stage = IF blobIsNull(canvas) THEN "rejected" ELSE "resolved",
                    !.width = canvas.width,
                    !.height = canvas.height]
    /\ UNCHANGED <<envVars, callVars, widgetVars, redirects, sessionVars, form>>
    /\ UNCHANGED hostVars

\* img.onerror
resizeImageOnerror ==
    /\ resize.stage = "loading"
    /\ ~resize.img.loaded
    /\ resize' = [resize EXCEPT !.stage = "rejected"]
    /\ UNCHANGED <<envVars, callVars, widgetVars, redirects, sessionVars, form>>
    /\ UNCHANGED hostVars

\* the caller has taken the settled promise
resizeImageReturn ==
    /\ resize.stage \in {"resolved", "rejected"}
    /\ resize' = NoResize
    /\ UNCHANGED <<envVars, callVars, widgetVars, redirects, sessionVars, form>>
    /\ UNCHANGED hostVars

InitResize ==
    /\ PROD = FALSE
    /\ localStorage \in Sessions
    /\ location = "/admin"
    /\ InitCall
    /\ showPreview = TRUE
    /\ InitWidget
    /\ InitSession
    /\ InitForm

NextResize ==
    \/ \E img \in ResizePictures, b \in ResizeBounds : resizeImage(img, b[1], b[2])
    \/ resizeImageOnload
    \/ resizeImageOnerror
    \/ resizeImageReturn

SpecResize == InitResize /\ [][NextResize]_vars

Abs(n) == IF n < 0 THEN -n ELSE n
Larger(a, b) == IF a > b THEN a ELSE b

\* C17: the image resizeImage resolves with is at most maxWidth wide and at
\* most maxHeight tall and has the aspect ratio of the original, up to the
\* rounding of one side to whole pixels.
C17_ResizedFitsBounds ==
    resize.stage = "resolved" =>
        /\ resize.width <= resize.maxWidth
        /\ resize.height <= resize.maxHeight
        /\ Abs(resize.width * resize.img.height - resize.img.width * resize.height)
                < Larger(resize.img.width, resize.img.height)

-----------------------------------------------------------------------------
(* The CreatePublication form *)

\* the value of a date input: << >> when empty, else <<year, month, day>>
\* new Date("YYYY-MM-DD"): UTC midnight of that day, kept as the number of days
\* since 1970-01-01 (the time value divided by 86400000); none for an Invalid Date
daysFromCivil(date) ==
    LET y == IF date[2] <= 2 THEN date[1] - 1 ELSE date[1]
        era == y \div 400
        yoe == y - era * 400
        mp == IF date[2] > 2 THEN date[2] - 3 ELSE date[2] + 9
        doy == (153 * mp + 2) \div 5 + date[3] - 1
        doe == yoe * 365 + yoe \div 4 - yoe \div 100 + doy
    IN  era * 146097 + doe - 719468

newDate(value) == IF value = << >> THEN None ELSE Some(daysFromCivil(value))

\* Date.prototype.toISOString of a valid date
civilFromDays(days) ==
    LET z == days + 719468
        era == z \div 146097
        doe == z - era * 146097
        yoe == (doe - doe \div 1460 + doe \div 36524 - doe \div 146096) \div 365
        doy == doe - (365 * yoe + yoe \div 4 - yoe \div 100)
        mp == (5 * doy + 2) \div 153
        d == doy - (153 * mp + 2) \div 5 + 1
        m == IF mp < 10 THEN mp + 3 ELSE mp - 9
        y == yoe + era * 400
    IN  <<IF m <= 2 THEN y + 1 ELSE y, m, d>>

toISOString(days) == civilFromDays(days) \o <<"T00:00:00.000Z">>

\* line 492: the end date does not follow the start date
invalidRange_strict(validFromDate, validToDate) == validToDate < validFromDate
invalidRange(validFromDate, validToDate) == validToDate <= validFromDate

\* the catch block of handleSubmit: error.response?.data?.message || the fixed message
submitErrorMessage(e) ==
    IF TruthyStr(e.responseMessage) THEN e.responseMessage[1]
    ELSE <<"Une erreur est survenue lors de la creation de la publication.">>

\* an Error thrown in the try block has no response
ThrownError(msg) == [message |-> msg, responseMessage |-> None]

\* lines 524-530: the success message by role
successMessage(role) ==
    IF role = "admin"
    THEN <<"Votre publication a ete soumise et est en attente de validation par un super administrateur.">>
    ELSE <<"Publication creee avec succes!">>

\* the number of createPublication calls followed in one behaviour
MaxSubmits == 2

FormDates == { << >>, <<2025, 1, 31>>, <<2025, 2, 1>>, <<2025, 3, 2>> }

\* what publicationService.createPublication settles with
CreateOutcomes ==
    { [ok |-> TRUE],
      [ok |-> FALSE, message |-> <<"title already used">>, responseMessage |-> None],
      [ok |-> FALSE, message |-> <<"Request failed with status code 409">>,
       responseMessage |-> Some(<<"title already used">>)] }

\* the ImageUpload of the form has not been used
IdleUploadStatus == [type |-> "idle", message |-> None, progress |-> None]
NoSelection == [stage |-> "none", file |-> NullFile, uploaded |-> None]

\* the props the form gives its ImageUpload (lines 1092-1096): onImageSelect,
\* currentImage and className; the props the component reads are left out
WidgetProps ==
    [onImageUploaded |-> None, onImageRemoved |-> None, currentImageUrl |-> None,
     maxSizeMB |-> 10, showPreview |-> TRUE]

\* the form after its first render (lines 433-456) and its ImageUpload (lines 31-33)
MountedForm(role) ==
    [mounted |-> TRUE,
     props |-> WidgetProps,
     role |-> role,
     publication |-> [content |-> << >>, imageUrl |-> << >>,
                      validFrom |-> <<2025, 1, 31>>, validTo |-> <<2025, 3, 2>>],
     contentWarning |-> None,
     formats |-> 0,
     imageUrl |-> << >>,
     imageData |-> None,
     isLoading |-> FALSE,
     error |-> None,
     success |-> None,
     created |-> << >>,
     navigations |-> 0,
     lastImage |-> None,
     uploadStatus |-> IdleUploadStatus,
     previewUrl |-> None,
     selections |-> [k \in 1..MaxUploads |-> NoSelection],
     timers |-> 0]

\* lines 471-479: the warning for a short content
checkContent_inclusive(fm, content) ==
    [fm EXCEPT !.contentWarning =
        IF Len(content) > 0 /\ Len(content) <= 50
        THEN Some(<<"Le contenu est un peu court.">>)
        ELSE None]
checkContent(fm, content) ==
    [fm EXCEPT !.contentWarning =
        IF Len(content) > 0 /\ Len(content) < 50
        THEN Some(<<"Le contenu est un peu court.">>)
        ELSE None]

\* an input or the textarea of the form changes
handleInputChange(name, value) ==
    /\ PageLoaded
    /\ form.mounted
    /\ LET changed == [form EXCEPT !.publication[name] = value]
       IN  form' = IF name = "content" THEN checkContent(changed, value) ELSE changed
    /\ UNCHANGED <<envVars, callVars, widgetVars, redirects, sessionVars, resize>>
    /\ UNCHANGED hostVars

\* handleSubmit up to its await of publicationService.createPublication, or to
\* the end of its catch and finally blocks when the try block throws before
handleSubmit ==
    /\ PageLoaded
    /\ form.mounted
    /\ ~form.isLoading
    /\ Len(form.created) < MaxSubmits
    /\ LET validFromDate == newDate(form.publication.validFrom)
           validToDate == newDate(form.publication.validTo)
           started == [form EXCEPT !.error = None, !.isLoading = TRUE, !.success = None]
           failed(e) == [started EXCEPT !.error = Some(submitErrorMessage(e)), !.isLoading = FALSE]
       IN  IF validFromDate # None /\ validToDate # None
              /\ invalidRange(validFromDate[1], validToDate[1])
           THEN form' = failed(ThrownError(
                    <<"La date de fin doit etre posterieure a la date de debut.">>))
           ELSE IF validFromDate = None \/ validToDate = None
           THEN form' = failed(ThrownError(<<"Invalid time value">>))
           ELSE form' = [started EXCEPT !.created = Append(@,
                            [imageUrl |-> form.publication.imageUrl,
                             validFrom |-> toISOString(validFromDate[1]),
                             validTo |-> toISOString(validToDate[1])])]
    /\ UNCHANGED <<envVars, callVars, widgetVars, redirects, sessionVars, resize>>
    /\ UNCHANGED hostVars

\* handleSubmit after publicationService.createPublication has settled
handleSubmitSettled(o) ==
    /\ PageLoaded
    /\ form.mounted
    /\ form.isLoading
    /\ form' = IF o.ok
               THEN [form EXCEPT !.success = Some(successMessage(form.role)),
                                 !.navigations = @ + 1,
                                 !.isLoading = FALSE]
               ELSE [form EXCEPT !.error = Some(submitErrorMessage(o)),
                                 !.isLoading = FALSE]
    /\ UNCHANGED <<envVars, callVars, widgetVars, redirects, sessionVars, resize>>
    /\ UNCHANGED hostVars

\* the timeout of line 533 fires: navigate("/admin/publications") unmounts the form
navigate ==
    /\ PageLoaded
    /\ form.mounted
    /\ form.navigations > 0
    /\ form' = NoForm
    /\ UNCHANGED <<envVars, callVars, widgetVars, redirects, sessionVars, resize>>
    /\ UNCHANGED hostVars

InitFormSpec ==
    /\ PROD = FALSE
    /\ localStorage \in Sessions
    /\ location = "/admin"
    /\ InitCall
    /\ showPreview = TRUE
    /\ InitWidget
    /\ InitSession
    /\ form \in { MountedForm(role) : role \in {"admin", "superadmin"} }
    /\ resize = NoResize

NextForm ==
    \/ \E name \in {"validFrom", "validTo"}, value \in FormDates : handleInputChange(name, value)
    \/ handleSubmit
    \/ \E o \in CreateOutcomes : handleSubmitSettled(o)
    \/ navigate

SpecForm == InitFormSpec /\ [][NextForm]_vars

\* the order of two non-empty date values, read as calendar dates
DateLeq(a, b) ==
    \/ a[1] < b[1]
    \/ a[1] = b[1] /\ a[2] < b[2]
    \/ a[1] = b[1] /\ a[2] = b[2] /\ a[3] <= b[3]

\* C16: a submit with validTo <= validFrom does not call createPublication,
\* leaves a non-empty error message and no success message, and ends with
\* isLoading = false.
C16_BadDatesBlockSubmit ==
    [][(/\ handleSubmit
        /\ form.publication.validFrom # << >>
        /\ form.publication.validTo # << >>
        /\ DateLeq(form.publication.validTo, form.publication.validFrom)) =>
            /\ form'.created = form.created
            /\ form'.error # None
            /\ form'.error[1] # << >>
            /\ form'.success = None
            /\ form'.isLoading = FALSE]_vars

\* a submit was blocked for equal dates: nothing was sent, the error is shown
C16_Witness ==
    /\ form.mounted
    /\ form.publication.validFrom = <<2025, 2, 1>>
    /\ form.publication.validTo = <<2025, 2, 1>>
    /\ form.created = << >>
    /\ form.error # None
    /\ form.success = None
    /\ ~form.isLoading

-----------------------------------------------------------------------------
(* The content of the publication: typing and the formatting toolbar *)

\* the number of toolbar clicks followed in one behaviour
MaxFormats == 2

\* format strings of the toolbar (lines 607-616) and of the alignment buttons
Bold == <<"*", "*">>
Heading1 == <<"#", " ">>
Link == <<"[", "t", "e", "x", "t", "e", "]", "(", "u", "r", "l", ")">>
AlignLeft == <<"a", "l", "i", "g", "n", "-", "l", "e", "f", "t">>
ToolbarFormats == { Bold, Heading1, Link, AlignLeft }

\* lines 627-634 of handleFormat
formatText(format, selectedText) ==
    IF format = Link
        THEN IF selectedText # << >> THEN <<"[">> \o selectedText \o SubSeq(Link, 7, 12)
             ELSE format
    ELSE IF format[1] = "#" \/ format[Len(format)] = " "
        THEN format \o selectedText
    ELSE format \o selectedText \o format

\* what is typed in the textarea
Contents == { Repeat("x", n) : n \in {0, 45, 49, 50} }

\* a toolbar button is clicked while the characters start+1..end of the
\* textarea are selected
handleFormat(format, start, end) ==
    /\ PageLoaded
    /\ form.mounted
    /\ form.formats < MaxFormats
    /\ start <= end
    /\ end <= Len(form.publication.content)
    /\ LET value == form.publication.content
           selectedText == SubSeq(value, start + 1, end)
           formattedText == formatText(format, selectedText)
           newContent == SubSeq(value, 1, start) \o formattedText
                            \o SubSeq(value, end + 1, Len(value))
       IN  form' = checkContent([form EXCEPT !.publication.content = newContent,
                                             !.formats = @ + 1],
                                newContent)
    /\ UNCHANGED <<envVars, callVars, widgetVars, redirects, sessionVars, resize>>
    /\ UNCHANGED hostVars

\* the selections tried: nothing or everything, the caret at either end
SelectionEnds == IF form.mounted THEN {0, Len(form.publication.content)} ELSE {0}

NextContent ==
    \/ \E value \in Contents : handleInputChange("content", value)
    \/ \E format \in ToolbarFormats, start, end \in SelectionEnds :
            handleFormat(format, start, end)
    \/ handleSubmit
    \/ \E o \in CreateOutcomes : handleSubmitSettled(o)
    \/ navigate

SpecContent == InitFormSpec /\ [][NextContent]_vars

\* C26: after every change of the content, by typing or by a toolbar
\* insertion, the short-content warning is set exactly when
\* 0 < length(content) < 50; and the warning does not block the submission:
\* a submit with valid dates calls createPublication also while it is shown.
C26_ShortContentWarning ==
    [][(form.mounted /\ form'.mounted) =>
        /\ form'.contentWarning # None <=>
                (0 < Len(form'.publication.content) /\ Len(form'.publication.content) < 50)
        /\ (handleSubmit /\ form.contentWarning # None) =>
                /\ Len(form'.created) = Len(form.created) + 1
                /\ form'.isLoading]_vars

\* a content of 49 characters made with the toolbar is being submitted under the warning
C26_Witness ==
    /\ form.mounted
    /\ form.formats > 0
    /\ Len(form.publication.content) = 49
    /\ form.contentWarning # None
    /\ Len(form.created) > 0
    /\ form.isLoading

-----------------------------------------------------------------------------
(* The form together with the ImageUpload it renders *)

\* lines 560-567
handleImageUploaded(fm, imageUrl, publicId) ==
    [fm EXCEPT !.imageData = Some([imageUrl |-> imageUrl, publicId |-> publicId]),
               !.publication.imageUrl = imageUrl]

\* lines 570-577
handleImageRemoved(fm) ==
    [fm EXCEPT !.imageData = None, !.publication.imageUrl = << >>]

\* onImageUploaded(result.imageUrl, result.publicId) in the component
onImageUploaded(fm, imageUrl, publicId) ==
    IF fm.props.onImageUploaded = Some("handleImageUploaded")
    THEN [ok |-> TRUE, form |-> handleImageUploaded(fm, imageUrl, publicId)]
    ELSE IF fm.props.onImageUploaded # None
    THEN [ok |-> TRUE, form |-> fm]
    ELSE [ok |-> FALSE, form |-> fm, message |-> <<"onImageUploaded is not a function">>]

\* onImageRemoved?.() in the component
onImageRemoved(fm) ==
    IF fm.props.onImageRemoved = Some("handleImageRemoved")
    THEN handleImageRemoved(fm)
    ELSE fm

\* the catch block of handleFileSelect (lines 73-85)
selectFailed(fm, k, msg) ==
    [fm EXCEPT !.uploadStatus = [type |-> "error", message |-> Some(msg), progress |-> None],
               !.previewUrl = None,
               !.timers = @ + 1,
               !.selections[k].stage = "failed"]

\* imageUploadService.previewImage(file): the data URL of the file, read
\* asynchronously; the service of imageUpload.service.ts has no such method,
\* and there the call throws
previewImage(k, defined) ==
    IF defined
    THEN [ok |-> TRUE, value |-> <<"data:", k>>]
    ELSE [ok |-> FALSE, message |-> <<"imageUploadService.previewImage is not a function">>]

FormFiles ==
    { SomeFile,
      [isNull |-> FALSE, type |-> <<"image/", "png">>, size |-> maxSize + 1,
       name |-> <<"a", ".", "g">>],
      [isNull |-> FALSE, type |-> <<"text/", "plain">>, size |-> 1, name |-> <<"a", ".", "g">>] }

FormUploadOutcomes ==
    { HttpResponse(200, Some([EmptyObject EXCEPT
            !.success = Some(TRUE),
            !.data = Some([ImageUrlOnly EXCEPT !.publicId = Some(<<"p", "1">>)])])),
      HttpResponse(401, None),
      HttpResponse(500, Some([EmptyObject EXCEPT !.message = Some(<<"quota exceeded">>)])) }

\* the next call of handleFileSelect
FreeSelection(k) ==
    /\ form.selections[k].stage = "none"
    /\ \A j \in 1..(k - 1) : form.selections[j].stage # "none"

\* handleFileSelect up to its await of previewImage: a file is chosen or dropped
handleFileSelect(k, f) ==
    /\ PageLoaded
    /\ form.mounted
    /\ FreeSelection(k)
    /\ LET started == [form EXCEPT
                        !.uploadStatus = [type |-> "uploading",
                                          message |-> Some(<<"Preparation du fichier...">>),
                                          progress |-> None],
                        !.selections[k] = [stage |-> "preview", file |-> f, uploaded |-> None]]
       IN  form' = IF f.size > form.props.maxSizeMB * 1024 * 1024
                   THEN selectFailed(started, k, <<"Le fichier doit faire moins de ", "10", "MB">>)
                   ELSE started
    /\ UNCHANGED <<envVars, callVars, widgetVars, redirects, sessionVars, resize>>
    /\ UNCHANGED hostVars

\* handleFileSelect from the end of previewImage to the await of
\* imageUploadService.uploadImage, whose validateFile runs before its request
handleFileSelectPreviewed(k, defined) ==
    /\ PageLoaded
    /\ form.mounted
    /\ form.selections[k].stage = "preview"
    /\ LET v == validateFile(form.selections[k].file)
           preview == previewImage(k, defined)
           shown == [form EXCEPT
                        !.previewUrl = IF preview.ok THEN Some(preview.value) ELSE @,
                        !.uploadStatus = [type |-> "uploading",
                                          message |-> Some(<<"Upload en cours...">>),
                                          progress |-> Some(50)],
                        !.selections[k].stage = "uploading"]
       IN  form' = IF ~preview.ok THEN selectFailed(form, k, preview.message)
                   ELSE IF v.ok THEN shown
                   ELSE selectFailed(shown, k, uploadImageCatch(v.message))
    /\ UNCHANGED <<envVars, callVars, widgetVars, redirects, sessionVars, resize>>
    /\ UNCHANGED hostVars

\* handleFileSelect after imageUploadService.uploadImage has settled
handleFileSelectSettled(k, o) ==
    /\ PageLoaded
    /\ form.mounted
    /\ form.selections[k].stage = "uploading"
    /\ ResponseEffects(o)
    /\ LET t == uploadImageTry(form.selections[k].file, o) IN
       IF t.ok
       THEN LET uploaded == [form EXCEPT
                                !.uploadStatus = [type |-> "success",
                                                  message |-> Some(<<"Image uploadee avec succes!">>),
                                                  progress |-> None],
                                !.previewUrl = t.value.imageUrl,
                                !.lastImage = Some(t.value.imageUrl[1]),
                                !.selections[k].stage = "uploaded",
                                !.selections[k].uploaded = t.value.imageUrl]
                told == onImageUploaded(uploaded, t.value.imageUrl[1], t.value.publicId)
            IN  form' = IF told.ok
                        THEN [told.form EXCEPT !.timers = @ + 1]
                        ELSE [selectFailed(told.form, k, told.message) EXCEPT
                                !.selections[k].stage = "uploaded"]
       ELSE form' = selectFailed(form, k, uploadImageCatch(t.message))
    /\ UNCHANGED <<PROD, callVars, widgetVars, sessionVars, resize>>
    /\ UNCHANGED hostVars

\* a timeout of line 69 or 82 fires
resetStatus ==
    /\ PageLoaded
    /\ form.mounted
    /\ form.timers > 0
    /\ form' = [form EXCEPT !.uploadStatus = IdleUploadStatus, !.timers = @ - 1]
    /\ UNCHANGED <<envVars, callVars, widgetVars, redirects, sessionVars, resize>>
    /\ UNCHANGED hostVars

\* the remove button of the form's ImageUpload (lines 115-122)
formHandleRemoveImage ==
    /\ PageLoaded
    /\ form.mounted
    /\ form.previewUrl # None
    /\ form' = onImageRemoved([form EXCEPT !.previewUrl = None,
                                           !.uploadStatus = IdleUploadStatus,
                                           !.lastImage = Some(<< >>)])
    /\ UNCHANGED <<envVars, callVars, widgetVars, redirects, sessionVars, resize>>
    /\ UNCHANGED hostVars

NextFormImage ==
    \/ \E k \in 1..MaxUploads, f \in FormFiles : handleFileSelect(k, f)
    \/ \E k \in 1..MaxUploads, defined \in BOOLEAN : handleFileSelectPreviewed(k, defined)
    \/ \E k \in 1..MaxUploads, o \in FormUploadOutcomes : handleFileSelectSettled(k, o)
    \/ resetStatus
    \/ formHandleRemoveImage
    \/ handleSubmit
    \/ \E o \in CreateOutcomes : handleSubmitSettled(o)
    \/ navigate

SpecFormImage == InitFormSpec /\ [][NextFormImage]_vars

\* C19: once an upload started from the form's ImageUpload has succeeded with
\* URL U, publication.imageUrl is U and the next createPublication payload
\* carries U as its imageUrl; once the image is removed both are empty.
\* (lastImage is U after a successful upload and "" after a removal.)
C19_UploadedUrlReachesPayload ==
    [][(form.mounted /\ form'.mounted) =>
        /\ form'.lastImage # None => form'.publication.imageUrl = form'.lastImage[1]
        /\ (Len(form'.created) > Len(form.created) /\ form.lastImage # None) =>
                form'.created[Len(form'.created)].imageUrl = form.lastImage[1]]_vars

\* a call of handleFileSelect has not reached its end
Selecting == \E k \in 1..MaxUploads : form.selections[k].stage \in {"preview", "uploading"}

\* C28: whenever an upload of the form's ImageUpload is in flight its status
\* is 'uploading': the delayed reset scheduled by an earlier upload moves
\* only a success or error status to idle and never replaces the 'uploading'
\* status of a later upload.
C28_UploadingNotOverwritten ==
    (form.mounted /\ Selecting) => form.uploadStatus.type = "uploading"

-----------------------------------------------------------------------------
(* The ImageUpload of pages/admin/ImageUpload.tsx under a host that gives it
   the props it reads *)

PriorImage == <<"h", "t", "t", "p", "s", ":", "/", "/", "h", "/", "0", ".", "j", "p", "g">>

\* the props of a host that creates (no currentImageUrl) or edits (the image
\* of the publication as currentImageUrl)
HostProps ==
    { [WidgetProps EXCEPT !.onImageUploaded = Some("host"),
                          !.onImageRemoved = Some("host"),
                          !.currentImageUrl = c] : c \in {None, Some(PriorImage)} }

\* lines 31-33: previewUrl starts as currentImageUrl || null
MountedWidget(props) ==
    [MountedForm("admin") EXCEPT !.props = props, !.previewUrl = props.currentImageUrl]

InitImageUpload ==
    /\ PROD = FALSE
    /\ localStorage \in Sessions
    /\ location = "/admin"
    /\ InitCall
    /\ showPreview = TRUE
    /\ InitWidget
    /\ InitSession
    /\ form \in { MountedWidget(props) : props \in HostProps }
    /\ resize = NoResize

NextImageUpload ==
    \/ \E k \in 1..MaxUploads, f \in FormFiles : handleFileSelect(k, f)
    \/ \E k \in 1..MaxUploads, defined \in BOOLEAN : handleFileSelectPreviewed(k, defined)
    \/ \E k \in 1..MaxUploads, o \in FormUploadOutcomes : handleFileSelectSettled(k, o)
    \/ resetStatus
    \/ formHandleRemoveImage

SpecImageUpload == InitImageUpload /\ [][NextImageUpload]_vars

\* selection k ends in failure in this step
SelectionFails(k) ==
    /\ form.selections[k].stage \in {"none", "preview", "uploading"}
    /\ form'.selections[k].stage = "failed"

\* C23: when an upload fails the preview made for the failed file is
\* discarded and the widget shows what it showed before: the prior image
\* (currentImageUrl) when it is editing, no preview when there was none.
\* Stated for the first selection of a widget whose image was not removed.
C23_FailureRestoresPriorImage ==
    [][(/\ SelectionFails(1)
        /\ form.selections[2].stage = "none"
        /\ form'.selections[2].stage = "none"
        /\ form'.lastImage = None) =>
            form'.previewUrl = form.props.currentImageUrl]_vars

====
